---- MODULE Spec2Model ----
(***************************************************************************)
(* IranNewsRadar (main.py): one scheduled run of the radar discovers news  *)
(* entries, processes each in a thread pool (scrape, analyse, assemble),   *)
(* merges the produced items into news.json (dedupe by url, sort by        *)
(* timestamp descending, trim to 60) and appends the processed URLs to     *)
(* seen_news.txt.  Several runs (one process each) follow one another.     *)
(***************************************************************************)
EXTENDS Integers, Sequences, FiniteSets, TLC

\* ---------------------------------------------------------------- constants
K == 60                 \* final_list = unique_list[:60]
MAX_WORKERS == 4        \* CONFIG['MAX_WORKERS']
MAX_RESULTS == 15       \* CONFIG['MAX_RESULTS']

\* ---------------------------------------------------------------- bounds
MaxRuns == 2            \* processes started one after the other

\* ---------------------------------------------------------------- URLs
\* A URL is a pair <<family, number>>: "g" a discovery (Google News) link,
\* "r" the publisher page it redirects to, "f" a page stored by an earlier run.
G(n) == <<"g", n>>
R(n) == <<"r", n>>
F(n) == <<"f", n>>
NoUrl == <<"none", 0>>

\* Where a discovery link redirects to (requests follows redirects; resp.url).
\* g1 and g2 are two links to the same article.
Redirect(url) ==
    CASE url = G(1) -> R(1)
      [] url = G(2) -> R(1)
      [] OTHER -> url

\* ---------------------------------------------------------------- discovery
\* Entries gnews.get_news can return.  A title is the list of its ' - '
\* separated segments; 'published date' is the epoch it parses to, or -1 when
\* dateutil cannot parse it.
Feed ==
    << [url |-> G(1), title |-> <<"Strike", "Reuters">>, published |-> 1, publisher |-> "Reuters"],
       [url |-> G(2), title |-> <<"Talks">>,             published |-> -1, publisher |-> "AP"] >>

RECURSIVE Pick(_, _, _)
\* the entries of feed at the indices in idx, in feed order
Pick(feed, idx, i) ==
    IF i > Len(feed) THEN <<>>
    ELSE IF i \in idx THEN <<feed[i]>> \o Pick(feed, idx, i + 1)
         ELSE Pick(feed, idx, i + 1)

\* What one call of get_news can return: any of the entries, at most
\* max_results of them.
Batches ==
    { Pick(Feed, idx, 1) :
        idx \in { s \in SUBSET (1..Len(Feed)) : Cardinality(s) <= MAX_RESULTS } }

\* time.time() during run number r: later than every date of the feed and of
\* the stored items, and later in a later run
Clock(r) == 3 + r

\* ---------------------------------------------------------------- items
None == [kind |-> "None"]

\* entry.get('title', '').rsplit(' - ', 1)[0]: the title without its last
\* ' - ' segment (the publisher), or the whole title when it has one segment
RawTitle(title) ==
    IF Len(title) > 1 THEN SubSeq(title, 1, Len(title) - 1) ELSE title

\* What requests.get can do for a page: raise (timeout, connection error), or
\* return a response of some status; requests does not raise on a non-2xx
\* status, and the body of an error page is parsed like any other.
Responses ==
    { [kind |-> "exception", status |-> 0,   og_image |-> FALSE, text |-> ""],
      [kind |-> "page",      status |-> 200, og_image |-> TRUE,  text |-> "article text"],
      [kind |-> "page",      status |-> 404, og_image |-> TRUE,  text |-> ""] }

\* scrape_article: (final_url, image_url, clean_text)
scrape_article(url, resp) ==
    IF resp.kind = "exception"
    THEN [final_url |-> url, image_url |-> "None", clean_text |-> ""]
    ELSE [final_url |-> Redirect(url),
          image_url |-> IF resp.og_image THEN "og:image" ELSE "None",
          clean_text |-> resp.text]

\* What the analysis backend can answer.
AiResponses == {"json_object", "json_list", "bad_json", "non_200", "network_error"}

\* analyze_with_ai: None without a key, on a non-200 status and on any
\* exception; otherwise whatever json.loads returns for the content.
analyze_with_ai(key, headline, answer) ==
    IF ~key THEN None
    ELSE CASE answer = "json_object" ->
                [kind |-> "dict", title_fa |-> <<"fa">> \o headline, summary |-> "ai summary",
                 impact |-> "ai impact", tag |-> "ai tag", sentiment |-> 1]
           [] answer = "json_list" -> [kind |-> "list"]
           [] OTHER -> None

\* "if not ai_data": the fallback dictionary of process_item
Fallback(raw_title) ==
    [kind |-> "dict", title_fa |-> raw_title, summary |-> "fallback summary",
     impact |-> "no analysis", tag |-> "general", sentiment |-> 0]

\* generate_ai_image
generate_ai_image(prompt) == "generated image"

\* dt.timestamp() of the parsed date, time.time() when parsing fails
Timestamp(published, now) == IF published >= 0 THEN published ELSE now

\* The dictionary process_item returns, without '_original_url'.
Assemble(entry, ai_data, real_url, real_image, now) ==
    [title_fa  |-> ai_data.title_fa,
     title_en  |-> RawTitle(entry.title),
     summary   |-> ai_data.summary,
     impact    |-> ai_data.impact,
     tag       |-> ai_data.tag,
     sentiment |-> ai_data.sentiment,
     source    |-> entry.publisher,
     url       |-> real_url,
     image     |-> IF real_image = "None" THEN generate_ai_image(RawTitle(entry.title))
                   ELSE real_image,
     date      |-> entry.published,
     timestamp |-> Timestamp(entry.published, now)]

\* process_item from the analysis on: the worker's return value, or the
\* exception ai_data.get raises when the backend answered with a JSON value
\* that is truthy and no object.
Analysed(entry, key, answer, real_url, real_image, now) ==
    LET ai == analyze_with_ai(key, RawTitle(entry.title), answer)
        ai_data == IF ai = None THEN Fallback(RawTitle(entry.title)) ELSE ai
    IN  IF ai_data.kind # "dict"
        THEN [kind |-> "raised"]
        ELSE [kind |-> "item", original_url |-> entry.url,
              item |-> Assemble(entry, ai_data, real_url, real_image, now)]

\* ---------------------------------------------------------------- merge
\* {item['url']: item for item in combined}, list(unique_dict.values()): one
\* entry per url, at the place of the url's first item (a dict keeps the order
\* in which its keys were first inserted), holding the url's last item (a
\* later item with the same key overwrites the value).
UniqueList(combined) ==
    LET numbered == [n \in DOMAIN combined |-> [at |-> n, url |-> combined[n].url]]
        IsFirst(e) == \A m \in 1..(e.at - 1) : combined[m].url # e.url
        firsts == SelectSeq(numbered, IsFirst)
        LastAt(url) == CHOOSE n \in DOMAIN combined :
                          /\ combined[n].url = url
                          /\ \A m \in (n + 1)..Len(combined) : combined[m].url # url
    IN  [n \in DOMAIN firsts |-> combined[LastAt(firsts[n].url)]]

\* x.get('timestamp', 0)
SortKey(x) == IF "timestamp" \in DOMAIN x THEN x.timestamp ELSE 0

RECURSIVE ByKeysDesc(_, _)
\* the items of list, key by key from the largest key of keys down, the items
\* of one key in the order they have in list
ByKeysDesc(list, keys) ==
    IF keys = {} THEN <<>>
    ELSE LET top == CHOOSE k \in keys : \A j \in keys : j <= k
             HasTop(x) == SortKey(x) = top
         IN  SelectSeq(list, HasTop) \o ByKeysDesc(list, keys \ {top})

\* list.sort(key=timestamp, reverse=True): descending and stable, items of
\* equal key keep the order they had
SortDesc(list) == ByKeysDesc(list, { SortKey(list[n]) : n \in DOMAIN list })

\* a mutant of Trim: one item too many is kept
TrimOneMore(list) == SubSeq(list, 1, IF Len(list) < K + 1 THEN Len(list) ELSE K + 1)

\* unique_list[:60]
Trim(list) == SubSeq(list, 1, IF Len(list) < K THEN Len(list) ELSE K)

\* final_list of run(): combined, unique_list, the sorted list and the
\* trimmed list, each computed once and handed to the next statement as a value
FinalList(new, old_data) ==
    CHOOSE final_list \in
        { Trim(sorted) : sorted \in
            { SortDesc(unique_list) : unique_list \in
                { UniqueList(combined) : combined \in {new \o old_data} } } } : TRUE

\* ---------------------------------------------------------------- files
\* news.json: absent, a JSON array of items ("list"), bytes that json.load
\* rejects ("corrupt": a file cut short while it was being written), or valid
\* JSON that is no array ("other": the document null)
AbsentNews == [kind |-> "absent", items |-> <<>>]
OtherNews == [kind |-> "other", items |-> <<>>]

\* What json.load of news.json gives run(): the parsed document; any failure
\* (no file, invalid JSON) is "old_data = []".
old_data_of(file) ==
    CASE file.kind = "list" -> file.items
      [] file.kind = "other" -> None
      [] OTHER -> <<>>

\* "combined = new_items + old_data" raises TypeError when the document
\* json.load read from the file is no list
MergeRaises(file) == file.kind = "other"

\* seen_news.txt is kept as the set of its lines: _load_seen reads it into a
\* set, so neither the order of the lines nor a repeated line is observable.
\* _load_seen: set(f.read().splitlines()) (no file: the empty set)
load_seen(lines) == lines

\* the lines "for url in new_urls: f.write(url + '\n')" appends
Lines(new_urls) == { new_urls[n] : n \in 1..Len(new_urls) }

\* A store that earlier runs have filled to its capacity: K articles whose
\* page could not be fetched (url = discovery url), the newer half first.
Stored(n) ==
    [title_fa |-> <<"Old">>, title_en |-> <<"Old">>, summary |-> "fallback summary",
     impact |-> "no analysis", tag |-> "general", sentiment |-> 0, source |-> "Source",
     url |-> F(n), image |-> "generated image",
     date |-> (IF 2 * n <= K THEN 3 ELSE 2),
     timestamp |-> (IF 2 * n <= K THEN 3 ELSE 2)]
FullStore == [n \in 1..K |-> Stored(n)]
\* the lines _save_seen wrote for them
FullHistory == { F(n) : n \in 1..K }

\* An entry an earlier run found under the publisher's own URL: the article
\* of Feed[1] and Feed[2], not behind a discovery link.
EarlierEntry ==
    [url |-> R(1), title |-> <<"Strike", "Reuters">>, published |-> 1, publisher |-> "Reuters"]

\* The item that run stored, after fetching and analysing the page.
FirstStored ==
    Assemble(EarlierEntry, analyze_with_ai(TRUE, RawTitle(EarlierEntry.title), "json_object"),
             R(1), "og:image", 0)

\* The files a first process can find: none, those of one earlier run, those
\* of many earlier runs, a news.json that something else has written.
InitialFiles ==
    { [news |-> AbsentNews, history |-> {}],
      [news |-> OtherNews, history |-> {}],
      [news |-> [kind |-> "list", items |-> <<FirstStored>>], history |-> {R(1)}],
      [news |-> [kind |-> "list", items |-> FullStore], history |-> FullHistory] }

\* ---------------------------------------------------------------- state
VARIABLES
    news,          \* the file news.json
    history,       \* the lines of seen_news.txt
    market,        \* the file market.json
    api_key,       \* self.api_key is set
    seen_urls,     \* self.seen_urls
    pc,            \* where run() is
    found_items,   \* run(): found_items
    tasks,         \* the futures of future_map, one per found item
    new_items,     \* run(): new_items
    seen_updates,  \* run(): seen_updates
    runs,          \* number of the process that is running
    start,         \* news.json and seen_news.txt when this process started
    prev           \* what the previous process found, if run() returned normally

vars == <<news, history, market, api_key, seen_urls, pc, found_items, tasks,
          new_items, seen_updates, runs, start, prev>>

\* A future: where its worker is in process_item, the worker's locals (status:
\* the status of the response scrape_article got, 0 when requests.get raised
\* or before the call), the
\* calls it has made (fetches: scrape_article, ai_calls: analyze_with_ai),
\* whether the fetch raised and whether the analysis gave nothing, the
\* future's result and whether as_completed has handed it out.
Queued ==
    [pc |-> "queued", real_url |-> NoUrl, real_image |-> "None", full_text |-> "",
     status |-> 0,
     fetches |-> 0, ai_calls |-> 0, fetch_failed |-> FALSE, ai_failed |-> FALSE,
     result |-> [kind |-> "pending"], collected |-> FALSE]

NoPrev == [status |-> "none", found |-> <<>>, real_urls |-> <<>>]

\* IranNewsRadar.__init__ of the first process
Init ==
    /\ \E f \in InitialFiles :
          /\ news = f.news
          /\ history = f.history
          /\ seen_urls = load_seen(f.history)
          /\ start = f
    /\ api_key \in BOOLEAN
    /\ market = "absent"
    /\ pc = "market"
    /\ found_items = <<>>
    /\ tasks = <<>>
    /\ new_items = <<>>
    /\ seen_updates = <<>>
    /\ runs = 1
    /\ prev = NoPrev

\* ---------------------------------------------------------------- run()
\* 1. Update Market: fetch_market_rates never raises and the snapshot (a rate
\* or "N/A", not told apart here) is written; nothing else reads market.json.
UpdateMarket ==
    /\ pc = "market"
    /\ market' = "snapshot"
    /\ pc' = "gnews"
    /\ UNCHANGED <<news, history, api_key, seen_urls, found_items, tasks, new_items,
                   seen_updates, runs, start, prev>>

\* 2. gnews.get_news returns; the executor is created and every item submitted.
GetNews ==
    /\ pc = "gnews"
    /\ \E batch \in Batches :
          /\ found_items' = batch
          /\ tasks' = [n \in 1..Len(batch) |-> Queued]
    /\ new_items' = <<>>
    /\ seen_updates' = <<>>
    /\ pc' = "collect"
    /\ UNCHANGED <<news, history, market, api_key, seen_urls, runs, start, prev>>

\* a mutant of GetNewsFails: news.json has been opened for writing before the
\* discovery call
GetNewsFailsAfterOpen ==
    /\ pc = "gnews"
    /\ pc' = "gnews_failed"
    /\ news' = [kind |-> "corrupt", items |-> <<>>]
    /\ UNCHANGED <<history, market, api_key, seen_urls, found_items, tasks,
                   new_items, seen_updates, runs, start, prev>>

\* 2. gnews.get_news raises: logged, run() returns.
GetNewsFails ==
    /\ pc = "gnews"
    /\ pc' = "gnews_failed"
    /\ UNCHANGED <<news, history, market, api_key, seen_urls, found_items, tasks,
                   new_items, seen_updates, runs, start, prev>>

\* ---------------------------------------------------------------- workers
\* a mutant of FirstCheck: the quick check is missing
FirstCheckMissing(entry, seen) == FALSE

\* "if original_url in self.seen_urls: return None"
FirstCheck(entry, seen) == entry.url \in seen

\* a mutant of SecondCheck: the check of the resolved URL is missing
SecondCheckMissing(real_url, seen) == FALSE

\* "if real_url in self.seen_urls: return None"
SecondCheck(real_url, seen) == real_url \in seen

Busy == { n \in DOMAIN tasks : tasks[n].pc \in {"scrape", "analyze"} }

\* A pool thread takes the next queued item and runs process_item up to the
\* first seen-check.
StartItem(n) ==
    /\ pc \in {"collect", "raised"}
    /\ tasks[n].pc = "queued"
    /\ \A m \in 1..(n - 1) : tasks[m].pc # "queued"
    /\ Cardinality(Busy) < MAX_WORKERS
    /\ tasks' = [tasks EXCEPT ![n] =
                   IF FirstCheck(found_items[n], seen_urls)
                   THEN [@ EXCEPT !.pc = "done", !.result = None]
                   ELSE [@ EXCEPT !.pc = "scrape"]]
    /\ UNCHANGED <<news, history, market, api_key, seen_urls, pc, found_items,
                   new_items, seen_updates, runs, start, prev>>

\* A. scrape_article, then the second seen-check.
ScrapeItem(n) ==
    /\ tasks[n].pc = "scrape"
    /\ \E resp \in Responses :
          LET got == scrape_article(found_items[n].url, resp)
          IN  tasks' = [tasks EXCEPT ![n] =
                   IF SecondCheck(got.final_url, seen_urls)
                   THEN [@ EXCEPT !.pc = "done", !.result = None, !.fetches = @ + 1,
                                  !.fetch_failed = (resp.kind = "exception"),
                                  !.real_url = got.final_url]
                   ELSE [@ EXCEPT !.pc = "analyze", !.fetches = @ + 1,
                                  !.status = resp.status,
                                  !.fetch_failed = (resp.kind = "exception"),
                                  !.real_url = got.final_url,
                                  !.real_image = got.image_url,
                                  !.full_text = got.clean_text]]
    /\ UNCHANGED <<news, history, market, api_key, seen_urls, pc, found_items,
                   new_items, seen_updates, runs, start, prev>>

\* B-D. analyze_with_ai, fallbacks, date parsing, the returned dictionary.
AnalyzeItem(n) ==
    /\ tasks[n].pc = "analyze"
    /\ \E answer \in AiResponses :
          tasks' = [tasks EXCEPT ![n] =
                      [@ EXCEPT !.pc = "done", !.real_image = "None", !.full_text = "",
                                !.status = 0,
                                !.ai_calls = @ + 1,
                                !.ai_failed =
                                    (analyze_with_ai(api_key, RawTitle(found_items[n].title),
                                                     answer) = None),
                                !.result = Analysed(found_items[n], api_key, answer,
                                                    tasks[n].real_url, tasks[n].real_image,
                                                    Clock(runs))]]
    /\ UNCHANGED <<news, history, market, api_key, seen_urls, pc, found_items,
                   new_items, seen_updates, runs, start, prev>>

\* ---------------------------------------------------------------- collect
AllCollected == \A n \in DOMAIN tasks : tasks[n].collected
AllFinished == \A n \in DOMAIN tasks : tasks[n].pc = "done"

\* a mutant of SeenOf: only the resolved URL is recorded
SeenOfUrlOnly(result, entry) ==
    IF result.kind = "item" THEN <<result.item.url>> ELSE <<>>

\* a mutant of SeenOf: the found item is recorded whatever the worker returned
SeenOfEvery(result, entry) ==
    IF result.kind = "item" THEN <<result.original_url, result.item.url>>
    ELSE <<entry.url>>

\* what one result adds to seen_updates: "if result:" the Google URL, then
\* the real URL
SeenOf(result, entry) ==
    IF result.kind = "item" THEN <<result.original_url, result.item.url>> ELSE <<>>

\* a mutant of HasNew: the merge runs whether or not there are new items
HasNewAlways(items) == TRUE

\* "if new_items:"
HasNew(items) == items # <<>>

\* One turn of "for future in as_completed(future_map)": future.result()
\* returns the worker's value or raises the worker's exception.
Collect(n) ==
    /\ pc = "collect"
    /\ tasks[n].pc = "done"
    /\ ~tasks[n].collected
    /\ tasks' = [tasks EXCEPT ![n].collected = TRUE]
    /\ LET result == tasks[n].result
       IN  IF result.kind = "raised"
           THEN /\ pc' = "raised"
                /\ UNCHANGED <<seen_updates, new_items>>
           ELSE /\ seen_updates' = seen_updates \o SeenOf(result, found_items[n])
                /\ new_items' = IF result.kind = "item" THEN Append(new_items, result.item)
                                 ELSE new_items
                /\ pc' = pc
    /\ UNCHANGED <<news, history, market, api_key, seen_urls, found_items, runs,
                   start, prev>>

\* The exception leaves the "with" block, which waits for every worker, and
\* then leaves run(): the process ends with a traceback.
AbortRun ==
    /\ pc = "raised"
    /\ AllFinished
    /\ pc' = "aborted"
    /\ UNCHANGED <<news, history, market, api_key, seen_urls, found_items, tasks,
                   new_items, seen_updates, runs, start, prev>>

\* 4. "if new_items" is false: only a log line.
NothingNew ==
    /\ pc = "collect"
    /\ AllCollected
    /\ ~HasNew(new_items)
    /\ pc' = "done"
    /\ UNCHANGED <<news, history, market, api_key, seen_urls, found_items, tasks,
                   new_items, seen_updates, runs, start, prev>>

\* a mutant of WriteNews: the store is written as soon as there is a new item,
\* without waiting for the other workers
WriteNewsEarly ==
    /\ pc = "collect"
    /\ HasNew(new_items)
    /\ ~MergeRaises(news)
    /\ news' = [kind |-> "list", items |-> FinalList(new_items, old_data_of(news))]
    /\ pc' = "save_seen"
    /\ UNCHANGED <<history, market, api_key, seen_urls, found_items, tasks, new_items,
                   seen_updates, runs, start, prev>>

\* 4. Merge & Sort, Save: news.json is read, merged and written again.
WriteNews ==
    /\ pc = "collect"
    /\ AllCollected
    /\ HasNew(new_items)
    /\ ~MergeRaises(news)
    /\ news' = [kind |-> "list", items |-> FinalList(new_items, old_data_of(news))]
    /\ pc' = "save_seen"
    /\ UNCHANGED <<history, market, api_key, seen_urls, found_items, tasks, new_items,
                   seen_updates, runs, start, prev>>

\* a mutant of WriteNewsFails: _save_seen was called before the store was
\* written
WriteNewsFailsAfterSeen ==
    /\ pc = "collect"
    /\ AllCollected
    /\ HasNew(new_items)
    /\ ~MergeRaises(news)
    /\ history' = history \cup Lines(seen_updates)
    /\ news' = [kind |-> "corrupt", items |-> <<>>]
    /\ pc' = "write_failed"
    /\ UNCHANGED <<market, api_key, seen_urls, found_items, tasks, new_items,
                   seen_updates, runs, start, prev>>

\* open(..., 'w') has emptied news.json and the write does not complete
\* (disk full, the process is killed): the exception leaves run().
WriteNewsFails ==
    /\ pc = "collect"
    /\ AllCollected
    /\ HasNew(new_items)
    /\ ~MergeRaises(news)
    /\ news' = [kind |-> "corrupt", items |-> <<>>]
    /\ pc' = "write_failed"
    /\ UNCHANGED <<history, market, api_key, seen_urls, found_items, tasks, new_items,
                   seen_updates, runs, start, prev>>

\* 4. the merge raises before news.json is opened for writing: the exception
\* leaves run().
MergeFails ==
    /\ pc = "collect"
    /\ AllCollected
    /\ HasNew(new_items)
    /\ MergeRaises(news)
    /\ pc' = "merge_failed"
    /\ UNCHANGED <<news, history, market, api_key, seen_urls, found_items, tasks,
                   new_items, seen_updates, runs, start, prev>>

\* a mutant of SaveSeen: the file is opened with 'w', not 'a'
SaveSeenOverwrites ==
    /\ pc = "save_seen"
    /\ history' = Lines(seen_updates)
    /\ pc' = "done"
    /\ UNCHANGED <<news, market, api_key, seen_urls, found_items, tasks, new_items,
                   seen_updates, runs, start, prev>>

\* self._save_seen(seen_updates): one line per url, appended.
SaveSeen ==
    /\ pc = "save_seen"
    /\ history' = history \cup Lines(seen_updates)
    /\ pc' = "done"
    /\ UNCHANGED <<news, market, api_key, seen_urls, found_items, tasks, new_items,
                   seen_updates, runs, start, prev>>

\* a mutant of SaveSeenFails: the file was opened with 'w' and is left with
\* the lines written so far
SaveSeenFailsTruncated ==
    /\ pc = "save_seen"
    /\ \E k \in 0..(Len(seen_updates) - 1) :
          history' = Lines(SubSeq(seen_updates, 1, k))
    /\ pc' = "save_failed"
    /\ UNCHANGED <<news, market, api_key, seen_urls, found_items, tasks, new_items,
                   seen_updates, runs, start, prev>>

\* _save_seen fails, on open or after some of the lines: the exception
\* leaves run().
SaveSeenFails ==
    /\ pc = "save_seen"
    /\ \E k \in 0..(Len(seen_updates) - 1) :
          history' = history \cup Lines(SubSeq(seen_updates, 1, k))
    /\ pc' = "save_failed"
    /\ UNCHANGED <<news, market, api_key, seen_urls, found_items, tasks, new_items,
                   seen_updates, runs, start, prev>>

\* where a process has ended: run() returned, or an exception left it
Ended == {"done", "gnews_failed", "aborted", "merge_failed", "write_failed", "save_failed"}

\* The next scheduled run: a new process, __init__ loads seen_news.txt.  The
\* deployment's environment (the API key) is the same for every run.
NextRun ==
    /\ pc \in Ended
    /\ runs < MaxRuns
    /\ runs' = runs + 1
    /\ seen_urls' = load_seen(history)
    /\ start' = [news |-> news, history |-> history]
    /\ prev' = IF pc = "done"
                THEN [status |-> "done", found |-> found_items,
                      real_urls |-> [n \in DOMAIN tasks |-> tasks[n].real_url]]
                ELSE [status |-> "failed", found |-> <<>>, real_urls |-> <<>>]
    /\ pc' = "market"
    /\ found_items' = <<>>
    /\ tasks' = <<>>
    /\ new_items' = <<>>
    /\ seen_updates' = <<>>
    /\ UNCHANGED <<news, history, market, api_key>>

Next ==
    \/ UpdateMarket
    \/ GetNews
    \/ GetNewsFails
    \/ \E n \in DOMAIN tasks : StartItem(n)
    \/ \E n \in DOMAIN tasks : ScrapeItem(n)
    \/ \E n \in DOMAIN tasks : AnalyzeItem(n)
    \/ \E n \in DOMAIN tasks : Collect(n)
    \/ AbortRun
    \/ NothingNew
    \/ WriteNews
    \/ WriteNewsFails
    \/ MergeFails
    \/ SaveSeen
    \/ SaveSeenFails
    \/ NextRun

Spec == Init /\ [][Next]_vars

\* The scheduling the code guarantees: while the coordinator thread or a
\* started worker can take a step, a step is taken: the coordinator runs run()
\* on, the pool starts every submitted item, and the worker of every item but
\* the first runs on to its return.  The worker of the first item may stay for
\* ever in a call that does not return (a stalled worker); nothing forces the
\* next scheduled run either.
Scheduled ==
    \/ UpdateMarket
    \/ GetNews
    \/ GetNewsFails
    \/ \E n \in DOMAIN tasks : StartItem(n)
    \/ \E n \in DOMAIN tasks \ {1} : ScrapeItem(n)
    \/ \E n \in DOMAIN tasks \ {1} : AnalyzeItem(n)
    \/ \E n \in DOMAIN tasks : Collect(n)
    \/ AbortRun
    \/ NothingNew
    \/ WriteNewsFails
    \/ WriteNews
    \/ MergeFails
    \/ SaveSeen
    \/ SaveSeenFails

FairSpec == Spec /\ WF_vars(Scheduled)

\* ---------------------------------------------------------------- properties
Urls(items) == { items[n].url : n \in DOMAIN items }

\* the lines this process has added to seen_news.txt
Added == history \ start.history

\* this process has completed the write of news.json
Written == pc \in {"save_seen", "save_failed"} \/ (pc = "done" /\ new_items # <<>>)

\* C1: once a run has written news.json, the store has at most K items, no
\* two of them with the same url, and their timestamps never increase from
\* one item to the next.
StoreInvariant ==
    Written =>
        /\ news.kind = "list"
        /\ Len(news.items) <= K
        /\ Cardinality(Urls(news.items)) = Len(news.items)
        /\ \A i \in 1..(Len(news.items) - 1) :
              news.items[i].timestamp >= news.items[i + 1].timestamp

\* C1 witness: a full store has been merged with two new items of one url; the
\* surviving one is sorted to the top and the store is trimmed back to K.
StoreInvariantWitness ==
    /\ Written
    /\ Len(start.news.items) = K
    /\ Len(new_items) = 2
    /\ new_items[1].url = new_items[2].url
    /\ news.items[1].url = new_items[1].url
    /\ Len(news.items) = K

\* C2: after the write, an entry of the store whose url is the url of a new
\* item and of an item of the old store is one of the new items.
NewItemReplacesOld ==
    Written =>
        \A n \in DOMAIN news.items :
            (/\ news.items[n].url \in Urls(new_items)
             /\ news.items[n].url \in Urls(old_data_of(start.news)))
            => \E m \in DOMAIN new_items : news.items[n] = new_items[m]

\* C3 as stated: a run over the candidate set of the previous run, which ended
\* normally, has no new items and leaves both files as they were.
SecondRunFindsNothing ==
    (runs > 1 /\ prev.status = "done" /\ pc # "gnews" /\ pc # "market"
       /\ pc # "gnews_failed" /\ found_items = prev.found)
    => (new_items = <<>> /\ news = start.news /\ history = start.history)

\* every fetch this run has made resolved to the URL the previous run got
SameFetches ==
    \A n \in DOMAIN tasks :
        tasks[n].fetches > 0 => tasks[n].real_url = prev.real_urls[n]

\* C3 as amended: a run over the candidate set of the previous run, which ended
\* normally, in which every fetch resolves as it did in the previous run, has
\* no new items and leaves both files as they were.
SecondRunSameFetchesFindsNothing ==
    (runs > 1 /\ prev.status = "done" /\ pc # "gnews" /\ pc # "market"
       /\ pc # "gnews_failed" /\ found_items = prev.found /\ SameFetches)
    => (new_items = <<>> /\ news = start.news /\ history = start.history)

\* C3 witness: the previous run committed both candidates, this run has found
\* the same two and has ended.
SecondRunWitness ==
    /\ runs > 1
    /\ prev.status = "done"
    /\ Len(found_items) = 2
    /\ found_items = prev.found
    /\ G(2) \in seen_urls
    /\ \E n \in DOMAIN tasks : prev.real_urls[n] # NoUrl
    /\ pc = "done"

\* C4: when a worker has raised, the items the other workers returned are,
\* once the process has ended, in the seen history (merged and committed).
FailureDropsOnlyItem ==
    (pc \in {"done", "aborted"} /\ \E n \in DOMAIN tasks : tasks[n].result.kind = "raised")
    => \A m \in DOMAIN tasks :
          tasks[m].result.kind = "item"
          => /\ tasks[m].result.original_url \in history
             /\ tasks[m].result.item.url \in history

\* C5 as stated: when the run has completed, neither URL of an item whose
\* fetch or analysis failed is among the lines the run added.
FailedItemNotSeen ==
    pc = "done" =>
        \A n \in DOMAIN tasks :
            (tasks[n].fetch_failed \/ tasks[n].ai_failed)
            => /\ found_items[n].url \notin Added
               /\ tasks[n].real_url \notin Added

\* C5 as amended: the lines a run adds are URLs of items it produced and
\* collected; an item whose fetch or analysis failed is produced all the same,
\* and when the run has completed both its URLs are in the history.
OnlyProducedItemsSeen ==
    /\ \A u \in Added :
          \E n \in DOMAIN tasks :
              /\ tasks[n].collected
              /\ tasks[n].result.kind = "item"
              /\ u \in {tasks[n].result.original_url, tasks[n].result.item.url}
    /\ pc = "done" =>
          \A n \in DOMAIN tasks :
              (tasks[n].fetch_failed \/ tasks[n].ai_failed)
              => /\ tasks[n].result.kind = "item"
                 /\ tasks[n].result.original_url \in history
                 /\ tasks[n].result.item.url \in history

\* C5 witness: a completed run that has committed the URL of an item whose
\* fetch and analysis both failed, while its other candidate was dropped.
FailedItemSeenWitness ==
    /\ pc = "done"
    /\ \E n \in DOMAIN tasks :
          /\ tasks[n].fetch_failed
          /\ tasks[n].ai_failed
          /\ found_items[n].url \in Added
    /\ \E n \in DOMAIN tasks : tasks[n].result = None

\* C6: when the run has completed, the discovery URL and the resolved URL of
\* every item it produced are lines of seen_news.txt; and what a process
\* checks against is what the file held when it started.
BothUrlsSeen ==
    /\ seen_urls = start.history
    /\ pc = "done" =>
          \A n \in DOMAIN tasks :
              tasks[n].result.kind = "item"
              => /\ tasks[n].result.original_url \in history
                 /\ tasks[n].result.item.url \in history

\* C6 witness: a completed run has added the two different URLs of an item.
BothUrlsSeenWitness ==
    /\ pc = "done"
    /\ \E n \in DOMAIN tasks :
          /\ tasks[n].result.kind = "item"
          /\ tasks[n].result.original_url # tasks[n].result.item.url
          /\ tasks[n].result.original_url \in Added
          /\ tasks[n].result.item.url \in Added

\* C7: in every state, a candidate whose discovery URL is in the seen set of
\* the process has been neither fetched nor analysed.
SeenNeverFetched ==
    \A n \in DOMAIN tasks :
        found_items[n].url \in seen_urls
        => (tasks[n].fetches = 0 /\ tasks[n].ai_calls = 0)

\* C7 witness: a seen candidate's worker has returned while the worker of an
\* unseen candidate of the same batch has fetched.
SeenNeverFetchedWitness ==
    /\ \E n \in DOMAIN tasks :
          found_items[n].url \in seen_urls /\ tasks[n].pc = "done"
    /\ \E n \in DOMAIN tasks : tasks[n].fetches > 0

\* C8: in every state, a candidate that was fetched and resolved to a seen
\* URL has not been analysed, returns None, and neither of its URLs is in
\* seen_updates, in new_items or among the lines added.
ResolvedSeenDropped ==
    \A n \in DOMAIN tasks :
        (tasks[n].fetches > 0 /\ tasks[n].real_url \in seen_urls)
        => /\ tasks[n].ai_calls = 0
           /\ tasks[n].result = None
           /\ {found_items[n].url, tasks[n].real_url} \cap Lines(seen_updates) = {}
           /\ tasks[n].real_url \notin Urls(new_items)
           /\ found_items[n].url \notin Added

\* C8 witness: a completed run that stored an item and dropped a candidate
\* after resolving it.
ResolvedSeenDroppedWitness ==
    /\ pc = "done"
    /\ new_items # <<>>
    /\ \E n \in DOMAIN tasks :
          /\ found_items[n].url \notin seen_urls
          /\ tasks[n].fetches > 0
          /\ tasks[n].real_url \in seen_urls
          /\ tasks[n].collected

\* C9: a run that has ended with no new items has left news.json and
\* seen_news.txt exactly as they were.
NothingNewNothingWritten ==
    (pc = "done" /\ new_items = <<>>)
    => (news = start.news /\ history = start.history)

\* C9 witness: such a run, which fetched a page, with a store on disk.
NothingNewWitness ==
    /\ pc = "done"
    /\ new_items = <<>>
    /\ start.news.kind = "list"
    /\ \E n \in DOMAIN tasks : tasks[n].fetches > 0

\* C10: when discovery has failed, the process has submitted no work and both
\* files are as they were.
DiscoveryFailureLeavesFiles ==
    pc = "gnews_failed" =>
        /\ tasks = <<>>
        /\ new_items = <<>>
        /\ seen_updates = <<>>
        /\ news = start.news
        /\ history = start.history

\* C10 witness: discovery fails in a run that follows one which stored items.
DiscoveryFailureWitness ==
    /\ pc = "gnews_failed"
    /\ runs > 1
    /\ news.kind = "list"
    /\ G(2) \in history

\* C11: in every state news.json is the complete store this process found or
\* the complete store this process has written, never a partial file.
StoreNeverPartial ==
    \/ news = start.news
    \/ /\ news.kind = "list"
       /\ news.items = FinalList(new_items, old_data_of(start.news))

\* C12: a step that changes self.seen_urls, seen_news.txt or news.json is taken
\* only when no worker is queued or running, and is a step of the coordinator
\* (a write of run() after the pool has shut down, or the start of a process).
NoWriteWhileWorking ==
    [][ (seen_urls' # seen_urls \/ history' # history \/ news' # news)
        => /\ AllFinished
           /\ pc \in {"collect", "save_seen"} \cup Ended
           /\ tasks' = tasks \/ tasks' = <<>> ]_vars

\* C12 witness: two workers have run, both have fetched and returned an item,
\* and the coordinator has then written the store and the history.
NoWriteWhileWorkingWitness ==
    /\ pc = "done"
    /\ Len(tasks) = 2
    /\ \A n \in DOMAIN tasks : tasks[n].fetches > 0 /\ tasks[n].result.kind = "item"
    /\ news # start.news
    /\ history # start.history

\* the item is in the store on disk, or the store is full of items that are
\* at least as new (the item fell to the trim)
Persisted(item) ==
    /\ news.kind = "list"
    /\ \/ \E n \in DOMAIN news.items : news.items[n] = item
       \/ /\ Len(news.items) = K
          /\ news.items[K].timestamp >= item.timestamp

\* C13: when the process has ended (run() returned or a worker's exception
\* left it), every candidate whose fetch raised, whose URL was not seen and
\* whose worker returned an item has a non-empty title and canonical URL =
\* discovery URL, and its item is persisted in the store.
UnreachableStillStored ==
    pc \in {"done", "aborted"} =>
        \A n \in DOMAIN tasks :
            (/\ tasks[n].fetch_failed
             /\ found_items[n].url \notin seen_urls
             /\ tasks[n].result.kind = "item")
            => /\ tasks[n].result.item.url = found_items[n].url
               /\ tasks[n].result.item.title_en # <<>>
               /\ tasks[n].result.item.title_fa # <<>>
               /\ Persisted(tasks[n].result.item)

\* C14: every worker that has called the analysis has returned an item (it
\* has not raised), whatever the backend answered; and when the analysis gave
\* nothing the item carries the fallback fields: localized title = original
\* title, the generic summary, impact and tag, sentiment 0.
EnrichmentNeverRaises ==
    \A n \in DOMAIN tasks :
        tasks[n].ai_calls > 0
        => /\ tasks[n].result.kind = "item"
           /\ tasks[n].ai_failed
              => /\ tasks[n].result.item.title_fa = tasks[n].result.item.title_en
                 /\ tasks[n].result.item.summary = Fallback(<<>>).summary
                 /\ tasks[n].result.item.impact = Fallback(<<>>).impact
                 /\ tasks[n].result.item.tag = Fallback(<<>>).tag
                 /\ tasks[n].result.item.sentiment = 0

\* C15: the merge never raises; and a run that has new items and found
\* news.json absent, unparsable or not an array completes with the store
\* holding exactly its new items (merged with nothing) and their identities in
\* seen_news.txt.
BadStoreIsEmptyStore ==
    /\ pc # "merge_failed"
    /\ (pc = "done" /\ new_items # <<>> /\ start.news.kind # "list")
       => /\ news = [kind |-> "list", items |-> FinalList(new_items, <<>>)]
          /\ Lines(seen_updates) \subseteq history

\* C16: a worker that is past scrape_article holds no content when the
\* retrieval failed: after an exception (network error, timeout) the canonical
\* URL is the discovery URL, and after an exception or a response whose status
\* is not 2xx there is no image and the text is empty.
FailedFetchNoContent ==
    \A n \in DOMAIN tasks :
        tasks[n].pc = "analyze"
        => /\ tasks[n].fetch_failed => tasks[n].real_url = found_items[n].url
           /\ tasks[n].status \notin 200..299
              => (tasks[n].real_image = "None" /\ tasks[n].full_text = "")

\* C17: no step removes a line from seen_news.txt: every URL in the file
\* before a step is in it after the step, across runs and failed runs.
HistoryAppendOnly == [][history \subseteq history']_vars

\* C17 witness: a later run has added a URL to a history that holds what an
\* earlier run added.
HistoryAppendOnlyWitness ==
    /\ runs > 1
    /\ G(1) \in start.history
    /\ G(2) \in Added
    /\ G(1) \in history

\* C18: if from some point on the worker of the first item stays in its fetch
\* for ever while the worker of the second item has returned an item, then
\* eventually that item is persisted in the store and both its URLs are in
\* seen_news.txt.
StalledWorkerStallsOnlyItself ==
    <>[](/\ Len(tasks) = 2
         /\ tasks[1].pc = "scrape"
         /\ tasks[2].result.kind = "item")
    => <>(/\ Len(tasks) = 2
          /\ tasks[2].result.kind = "item"
          /\ Persisted(tasks[2].result.item)
          /\ tasks[2].result.original_url \in history
          /\ tasks[2].result.item.url \in history)

\* the items the workers returned, in the order the candidates were submitted
InSubmissionOrder ==
    LET ReturnedItem(t) == t.result.kind = "item"
        returned == SelectSeq(tasks, ReturnedItem)
    IN  [n \in DOMAIN returned |-> returned[n].result.item]

\* C19: whatever the order in which the workers completed, the store a run
\* has written is the store it writes when they complete in submission order
\* (one of the possible orders), and so is the history once the run has ended.
OrderIndependent ==
    /\ Written
       => news = [kind |-> "list",
                  items |-> FinalList(InSubmissionOrder, old_data_of(start.news))]
    /\ (pc = "done" /\ new_items # <<>>)
       => history = start.history \cup Urls(InSubmissionOrder)
                                  \cup { found_items[n].url : n \in
                                           { m \in DOMAIN tasks : tasks[m].result.kind = "item" } }

\* C20: in every state where this process has added a line to seen_news.txt,
\* the write of news.json has completed (the file is the merge of this run's
\* new items with the store the run found), and every added line is the
\* discovery URL or the URL of one of the new items that went into that merge.
StoreBeforeSeen ==
    Added # {} =>
        /\ pc \in {"save_failed", "done"}
        /\ news = [kind |-> "list",
                   items |-> FinalList(new_items, old_data_of(start.news))]
        /\ \A u \in Added :
              \E n \in DOMAIN tasks :
                  /\ tasks[n].result.kind = "item"
                  /\ \E m \in DOMAIN new_items : new_items[m] = tasks[n].result.item
                  /\ u \in {tasks[n].result.original_url, tasks[n].result.item.url}

\* C20 witness: _save_seen has failed after the first of its lines, with the
\* store of two new items written before it.
StoreBeforeSeenWitness ==
    /\ pc = "save_failed"
    /\ Added # {}
    /\ Len(new_items) = 2
    /\ Lines(seen_updates) \ history # {}
    /\ news.kind = "list"

====
